---- MODULE Spec2Model ----
(***************************************************************************)
(* State-machine model of the building-data fetch pipeline of              *)
(* openbuildings_app:                                                      *)
(*   - overture_buildings.fetch_buildings_from_overture and                *)
(*     _to_feature_collection (specification Spec, SpecScenario),          *)
(*   - main.download_and_process_building_data, the application path that  *)
(*     calls the fetch and stores its result in the session (SpecApp),     *)
(*   - building_extractor.extract_buildings_from_map_view (SpecExtract).   *)
(*   - the fetch called with any geometry as area of interest (SpecArea),  *)
(*   - the pure functions overture_buildings._extract_properties           *)
(*     (SpecProps) and _to_feature_collection on footprints (SpecFilter),  *)
(*     main.get_paginated_features (SpecPage) and                          *)
(*     main.compute_building_statistics (SpecStats).                       *)
(*   - the sidebar of main.py: selection, fetch button, pagination         *)
(*     controls (SpecUI),                                                  *)
(*   - google_openbuildings.download_data_from_s2_code (SpecDownload).     *)
(*                                                                         *)
(* An upstream record is modelled by what the code can observe of it:      *)
(*   "in"  : geometry decodes and intersects the area of interest,         *)
(*   "out" : geometry decodes and does not intersect it,                   *)
(*   "bad" : geometry does not decode (or its normalisation raises).       *)
(* The upstream source is the sequence `stream` of such records; how the   *)
(* reader cuts it into batches is chosen at every pull.                    *)
(***************************************************************************)
EXTENDS Integers, Sequences, FiniteSets, TLC

\* ------------------------------------------------------------------ bounds
MaxRecords == 4
MaxBatchLen == 2
MaxLimit == 3
MaxEmptyBatches == 1
MaxFetches == 2
MaxAppRecords == 3
ScenarioLimit == 5
ScenarioMatching == 12
ScenarioExtra == 1
MaxBuildings == 3
MaxRows == 3
MaxFeatures == 5
MaxPageIndex == 3
MaxPageSize == 3
MaxStatFeatures == 3
MaxValue == 2
MaxPerPage == 2
MaxChunks == 3
MaxCalls == 3

\* ------------------------------------------------------- program constants
DEFAULT_FEATURE_LIMIT == 50000
ProgressFloor == 1000
ProgressFirstBatch == 10
ProgressSpan == 50
ProgressCap == 60
MinAreaSqm == 10
MaxAreaSqm == 10000
DefaultConfidence == 85

Kinds == {"in", "out", "bad"}

Min(a, b) == IF a < b THEN a ELSE b
Max(a, b) == IF a > b THEN a ELSE b

VARIABLES
    stream,        \* the records the upstream source holds for the bounding box
    limit,         \* the `limit` argument of the fetch
    hasCallback,   \* whether a progress_callback was passed
    pc,            \* position of the fetch / of the application handler
    pos,           \* number of records of `stream` the reader has delivered
    batches,       \* the local list `batches`
    total_count,   \* the local `total_count`
    batch_count,   \* the local `batch_count` (equals the loop index of the next batch)
    emptyPulled,   \* number of empty batches delivered so far
    stopReason,    \* why the batch loop ended: "none", "limit", "exhausted"
    geojson,       \* features of the FeatureCollection built by _to_feature_collection
    progressLog,   \* the progress values passed to progress_callback, in order
    outcome,       \* how the fetch ended: nothing yet, a returned result, a raised error
    upstreamFault, \* the reader failed to open, was None, or raised during a pull
    cbRaised,      \* progress_callback raised at one of its invocations
    opened,        \* this fetch has invoked record_batch_reader
    readerOpens,   \* number of invocations of record_batch_reader, over all fetches
    fetches,       \* number of fetch requests the application has issued
    session,       \* the st.session_state fields holding the stored result
    ex,            \* state of extract_buildings_from_map_view
    aoi,           \* the kind of geometry passed as area of interest
    props,         \* a call of _extract_properties: the raw record and the result
    conv,          \* a call of _to_feature_collection on records with geometry
    page,          \* a call of get_paginated_features: arguments and result
    stats,         \* a call of compute_building_statistics: features and result
    dl             \* download_data_from_s2_code: the file on disk and the calls

fetchVars == <<pos, batches, total_count, batch_count, emptyPulled, stopReason,
               geojson, progressLog, outcome, upstreamFault, cbRaised, opened>>
callVars == <<props, conv, page, stats, dl>>
vars == <<stream, limit, hasCallback, pc, fetchVars, readerOpens, fetches, session, ex,
          aoi, callVars>>

\* ---------------------------------------------------------------- records
Record(i) == [id |-> i, kind |-> stream[i]]

RECURSIVE StreamsUpTo(_)
StreamsUpTo(n) ==
    IF n = 0 THEN {<<>>}
    ELSE LET shorter == StreamsUpTo(n - 1)
         IN shorter \cup {Append(s, k) : s \in {t \in shorter : Len(t) = n - 1}, k \in Kinds}

\* The streams of the truncation scenario: ScenarioMatching matching records,
\* with up to ScenarioExtra non-intersecting records interleaved among the
\* first ScenarioLimit of them (the fetch stops before it reads further).  The
\* scenario is scaled 1:10000 (5 for limit = 50,000, 12 for 120,000 records);
\* the fetch compares these numbers only with each other.
InsertAt(s, p, k) == SubSeq(s, 1, p - 1) \o <<k>> \o SubSeq(s, p, Len(s))

RECURSIVE ScenarioStreams(_)
ScenarioStreams(extra) ==
    IF extra = 0 THEN {[i \in 1..ScenarioMatching |-> "in"]}
    ELSE LET fewer == ScenarioStreams(extra - 1)
         IN fewer \cup {InsertAt(s, p, "out") : s \in fewer, p \in 1..(ScenarioLimit + 1)}

RECURSIVE CountKind(_, _)
CountKind(s, k) ==
    IF s = <<>> THEN 0
    ELSE (IF Head(s) = k THEN 1 ELSE 0) + CountKind(Tail(s), k)

\* ------------------------------------------------- _to_feature_collection
\* The inner loop over the rows of one batch: stop at `count >= limit`, skip a
\* row whose geometry does not decode, skip a row that does not intersect the
\* input geometry, append a feature for every other row.
\* A plausible slip: a row that fails to decode ends the scan of its batch
\* (the try block around the loop instead of inside it).
RECURSIVE ScanRowsAbortOnBad(_, _, _)
ScanRowsAbortOnBad(rows, features, lim) ==
    IF rows = <<>> \/ Len(features) >= lim THEN features
    ELSE LET row == Head(rows)
         IN IF row.kind = "bad" THEN features
            ELSE IF row.kind = "out" THEN ScanRowsAbortOnBad(Tail(rows), features, lim)
            ELSE ScanRowsAbortOnBad(Tail(rows), Append(features, row.id), lim)

RECURSIVE ScanRows(_, _, _)
ScanRows(rows, features, lim) ==
    IF rows = <<>> \/ Len(features) >= lim THEN features
    ELSE LET row == Head(rows)
         IN IF row.kind = "bad" THEN ScanRows(Tail(rows), features, lim)
            ELSE IF row.kind = "out" THEN ScanRows(Tail(rows), features, lim)
            ELSE ScanRows(Tail(rows), Append(features, row.id), lim)

RECURSIVE ScanRowsNoLimit(_, _, _)
ScanRowsNoLimit(rows, features, lim) ==
    IF rows = <<>> THEN features
    ELSE LET row == Head(rows)
         IN IF row.kind = "in"
            THEN ScanRowsNoLimit(Tail(rows), Append(features, row.id), lim)
            ELSE ScanRowsNoLimit(Tail(rows), features, lim)

\* The outer loop over the batches.
RECURSIVE ScanBatches(_, _, _)
ScanBatches(bs, features, lim) ==
    IF bs = <<>> \/ Len(features) >= lim THEN features
    ELSE ScanBatches(Tail(bs), ScanRows(Head(bs), features, lim), lim)

RECURSIVE ScanBatchesNoLimit(_, _, _)
ScanBatchesNoLimit(bs, features, lim) ==
    IF bs = <<>> THEN features
    ELSE ScanBatchesNoLimit(Tail(bs), ScanRowsNoLimit(Head(bs), features, lim), lim)

\* A plausible slip: the `count >= limit` tests are missing.
ToFeatureCollectionNoLimit(bs, lim) == ScanBatchesNoLimit(bs, <<>>, lim)

ToFeatureCollection(bs, lim) == ScanBatches(bs, <<>>, lim)

\* ------------------------------------------------------- progress_callback
\* min(10 + int((total_count / max(limit, 1000)) * 50), 60), in exact integer
\* arithmetic (the code's float product may truncate one lower; it is
\* non-decreasing in total_count either way).
Progress(total, lim) ==
    Min(ProgressFirstBatch + (total * ProgressSpan) \div Max(lim, ProgressFloor), ProgressCap)

\* A step of the fetch invokes progress_callback with the values `vals`, in
\* order.  k = 0: no invocation raises; k > 0: the k-th invocation raises.
CallbackChoices(vals) == IF hasCallback THEN 0..Len(vals) ELSE {0}
Reported(vals, k) ==
    IF ~hasCallback THEN <<>>
    ELSE IF k = 0 THEN vals ELSE SubSeq(vals, 1, k)

NoOutcome == [kind |-> "none"]
Raised(err) == [kind |-> "raised", error |-> err]
\* truncated = total_count > limit
Truncated(total, lim) == total > lim

\* BuildingFetchResult(geojson, building_count = len(geojson['features']),
\*                     truncated, limit)
Returned(features, lim, total) ==
    [kind |-> "returned", geojson |-> features, building_count |-> Len(features),
     truncated |-> Truncated(total, lim), limit |-> lim]

\* --------------------------------------------- fetch_buildings_from_overture
\* The geometries that can be passed as area of interest: a polygon with an
\* interior, a Point, an empty polygon.
AreaKinds == {"polygon", "point", "empty"}

\* min_lon, min_lat, max_lon, max_lat = input_geometry.bounds: the bounds of a
\* polygon or a Point are four numbers; those of an empty geometry are, with
\* the shapely release, an empty tuple (the unpacking raises) or four NaN.
BoundsOutcomes(area) == IF area = "empty" THEN {"bounds", "raises"} ELSE {"bounds"}

\* Entry: bounds, bbox, and the first progress report, which is made before
\* the try block: an exception of the callback leaves the function as it is.
BeginFetch ==
    /\ pc = "start"
    /\ \E b \in BoundsOutcomes(aoi), k \in CallbackChoices(<<0>>) :
         IF b = "raises"
         THEN /\ pc' = "done"
              /\ outcome' = Raised("ValueError")
              /\ UNCHANGED <<progressLog, cbRaised>>
         ELSE /\ progressLog' = progressLog \o Reported(<<0>>, k)
              /\ IF k = 0
                 THEN /\ pc' = "open"
                      /\ UNCHANGED <<outcome, cbRaised>>
                 ELSE /\ pc' = "done"
                      /\ cbRaised' = TRUE
                      /\ outcome' = Raised("callback")
    /\ UNCHANGED <<stream, limit, hasCallback, pos, batches, total_count, batch_count,
                   emptyPulled, stopReason, geojson, upstreamFault, readerOpens,
                   fetches, session, ex, opened,
                   aoi, callVars>>

\* reader = record_batch_reader(...); None check; progress 5.
OpenReader ==
    /\ pc = "open"
    /\ readerOpens' = readerOpens + 1
    /\ opened' = TRUE
    /\ \E r \in {"reader", "raises", "none"} :
         IF r = "reader"
         THEN /\ \E k \in CallbackChoices(<<5>>) :
                   /\ progressLog' = progressLog \o Reported(<<5>>, k)
                   /\ cbRaised' = (k # 0)
                   /\ pc' = IF k = 0 THEN "stream" ELSE "except"
              /\ UNCHANGED upstreamFault
         ELSE /\ upstreamFault' = TRUE
              /\ pc' = "except"
              /\ UNCHANGED <<progressLog, cbRaised>>
    /\ UNCHANGED <<stream, limit, hasCallback, pos, batches, total_count, batch_count,
                   emptyPulled, stopReason, geojson, outcome, fetches, session, ex, aoi, callVars>>

\* The progress values one loop iteration reports: 10 for the first batch
\* (i == 0), and the download progress for every even i.
IterationReports(i, total, lim) ==
    (IF i = 0 THEN <<ProgressFirstBatch>> ELSE <<>>)
    \o (IF i % 2 = 0 THEN <<Progress(total, lim)>> ELSE <<>>)

\* One iteration of `for i, batch in enumerate(reader)`: the reader delivers
\* the next n records as a batch.
PullBatch ==
    /\ pc = "stream"
    /\ \E n \in 0..MaxBatchLen :
         /\ pos + n <= Len(stream)
         /\ n = 0 => emptyPulled < MaxEmptyBatches
         /\ LET batch == [j \in 1..n |-> Record(pos + j)]
                i == batch_count
                total == total_count + n
                vals == IterationReports(i, total, limit)
            IN /\ pos' = pos + n
               /\ emptyPulled' = IF n = 0 THEN emptyPulled + 1 ELSE emptyPulled
               /\ total_count' = total
               /\ batch_count' = batch_count + 1
               /\ batches' = Append(batches, batch)
               /\ \E k \in CallbackChoices(vals) :
                    /\ progressLog' = progressLog \o Reported(vals, k)
                    /\ cbRaised' = (k # 0)
                    /\ IF k # 0
                       THEN pc' = "except" /\ UNCHANGED stopReason
                       ELSE IF total >= limit
                            THEN pc' = "convert" /\ stopReason' = "limit"
                            ELSE pc' = "stream" /\ UNCHANGED stopReason
    /\ UNCHANGED <<stream, limit, hasCallback, geojson, outcome, upstreamFault,
                   readerOpens, fetches, session, ex, opened,
                   aoi, callVars>>

\* The reader has no more batches: the for loop ends.
SourceExhausted ==
    /\ pc = "stream"
    /\ pos = Len(stream)
    /\ stopReason' = "exhausted"
    /\ pc' = "convert"
    /\ UNCHANGED <<stream, limit, hasCallback, pos, batches, total_count, batch_count,
                   emptyPulled, geojson, progressLog, outcome, upstreamFault, cbRaised,
                   readerOpens, fetches, session, ex, opened,
                   aoi, callVars>>

\* Pulling the next batch raises (connection or protocol failure).
PullRaises ==
    /\ pc = "stream"
    /\ upstreamFault' = TRUE
    /\ pc' = "except"
    /\ UNCHANGED <<stream, limit, hasCallback, pos, batches, total_count, batch_count,
                   emptyPulled, stopReason, geojson, progressLog, outcome, cbRaised,
                   readerOpens, fetches, session, ex, opened,
                   aoi, callVars>>

\* Progress 65, then geojson = _to_feature_collection(batches, limit, geometry).
Convert ==
    /\ pc = "convert"
    /\ \E k \in CallbackChoices(<<65>>) :
         /\ progressLog' = progressLog \o Reported(<<65>>, k)
         /\ cbRaised' = (k # 0)
         /\ IF k = 0
            THEN /\ geojson' = ToFeatureCollection(batches, limit)
                 /\ pc' = "finish"
            ELSE /\ pc' = "except"
                 /\ UNCHANGED geojson
    /\ UNCHANGED <<stream, limit, hasCallback, pos, batches, total_count, batch_count,
                   emptyPulled, stopReason, outcome, upstreamFault, readerOpens,
                   fetches, session, ex, opened,
                   aoi, callVars>>

\* Progress 90, building_count, truncated, progress 100, return.
Finish ==
    /\ pc = "finish"
    /\ \E k \in CallbackChoices(<<90, 100>>) :
         /\ progressLog' = progressLog \o Reported(<<90, 100>>, k)
         /\ cbRaised' = (k # 0)
         /\ IF k = 0
            THEN /\ outcome' = Returned(geojson, limit, total_count)
                 /\ pc' = "done"
            ELSE /\ pc' = "except"
                 /\ UNCHANGED outcome
    /\ UNCHANGED <<stream, limit, hasCallback, pos, batches, total_count, batch_count,
                   emptyPulled, stopReason, geojson, upstreamFault, readerOpens,
                   fetches, session, ex, opened,
                   aoi, callVars>>

\* A plausible slip: the handler substitutes what was pulled so far for the
\* error, as the segmentation provider does.
ExceptHandlerReturnsPartial ==
    /\ pc = "except"
    /\ outcome' = Returned(ToFeatureCollection(batches, limit), limit, total_count)
    /\ pc' = "done"
    /\ UNCHANGED <<stream, limit, hasCallback, pos, batches, total_count, batch_count,
                   emptyPulled, stopReason, geojson, progressLog, upstreamFault, cbRaised,
                   readerOpens, fetches, session, ex, opened,
                   aoi, callVars>>

\* except Exception: report progress 0 with the error, raise RuntimeError.  An
\* exception of the callback here replaces the RuntimeError.
ExceptHandler ==
    /\ pc = "except"
    /\ \E k \in CallbackChoices(<<0>>) :
         /\ progressLog' = progressLog \o Reported(<<0>>, k)
         /\ cbRaised' = (cbRaised \/ k # 0)
         /\ outcome' = IF k = 0 THEN Raised("RuntimeError") ELSE Raised("callback")
    /\ pc' = "done"
    /\ UNCHANGED <<stream, limit, hasCallback, pos, batches, total_count, batch_count,
                   emptyPulled, stopReason, geojson, upstreamFault, readerOpens,
                   fetches, session, ex, opened,
                   aoi, callVars>>

FetchStep ==
    \/ BeginFetch
    \/ OpenReader
    \/ PullBatch
    \/ SourceExhausted
    \/ PullRaises
    \/ Convert
    \/ Finish
    \/ ExceptHandler

\* ------------------------------------------------------------ initial states
FetchLocalsInit ==
    /\ pos = 0
    /\ batches = <<>>
    /\ total_count = 0
    /\ batch_count = 0
    /\ emptyPulled = 0
    /\ stopReason = "none"
    /\ geojson = <<>>
    /\ progressLog = <<>>
    /\ outcome = NoOutcome
    /\ upstreamFault = FALSE
    /\ cbRaised = FALSE
    /\ opened = FALSE

\* initialize_session_state: the defaults of the stored-result fields.
\* filtered_building_geojson is not among them: the attribute is absent until
\* a fetch succeeds.
None == [is |-> "None"]
Absent == [is |-> "absent"]
\* The options of the "Buildings per page" slider (1000 to 25000 in the code)
\* are scaled down to 1..MaxPerPage, so that a few records fill several
\* pages; the handlers only compare with features_per_page and divide by it.
\* The default is one of the larger options.
FeaturesPerPageOptions == 1..MaxPerPage
DefaultFeaturesPerPage == MaxPerPage

\* The names of the features of the uploaded file; the multiselect returns a
\* subset of them.
FeatureNames == {"A", "B"}

SessionInit ==
    [filtered_building_data |-> None, filtered_building_geojson |-> Absent,
     building_count |-> 0, info_box_visible |-> FALSE, data_truncated |-> FALSE,
     feature_limit |-> DEFAULT_FEATURE_LIMIT, current_page |-> 0,
     pagination_enabled |-> TRUE, features_per_page |-> DefaultFeaturesPerPage,
     selected_feature_names |-> {}, input_geometry |-> None]

ExIdle == [pc |-> "idle", failed |-> FALSE, gdf |-> None, building_count |-> 0,
           outcome |-> NoOutcome]

\* No call of the pure functions is under way.
NoCall == [pc |-> "idle"]
CallsIdle ==
    /\ props = NoCall
    /\ conv = NoCall
    /\ page = NoCall
    /\ stats = NoCall
    /\ dl = NoCall

\* One invocation of fetch_buildings_from_overture, with or without a progress
\* callback: for any upstream content and any limit >= 1 within the bounds,
\* and for the streams and the limit of the truncation scenario.
Init ==
    /\ \/ /\ stream \in StreamsUpTo(MaxRecords)
          /\ limit \in 1..MaxLimit
       \/ /\ stream \in ScenarioStreams(ScenarioExtra)
          /\ limit = ScenarioLimit
    /\ hasCallback \in BOOLEAN
    /\ pc = "start"
    /\ FetchLocalsInit
    /\ readerOpens = 0
    /\ fetches = 1
    /\ session = SessionInit
    /\ ex = ExIdle
    /\ aoi = "polygon"
    /\ CallsIdle

Next == FetchStep

Spec == Init /\ [][Next]_vars

\* One call of the fetch with any geometry as area of interest.  An empty
\* geometry intersects no footprint.
InitArea ==
    /\ aoi \in AreaKinds
    /\ stream \in {s \in StreamsUpTo(MaxAppRecords) :
                      aoi = "empty" => CountKind(s, "in") = 0}
    /\ limit \in 1..MaxLimit
    /\ hasCallback \in BOOLEAN
    /\ pc = "start"
    /\ FetchLocalsInit
    /\ readerOpens = 0
    /\ fetches = 1
    /\ session = SessionInit
    /\ ex = ExIdle
    /\ CallsIdle

NextArea == FetchStep

SpecArea == InitArea /\ [][NextArea]_vars

\* ------------------------------------ download_and_process_building_data
\* json.dumps(result.geojson, separators=(',', ':')): the text of the
\* FeatureCollection, and json.loads, its inverse on such texts.
Dumps(features) == [is |-> "str", text |-> <<"FeatureCollection", features>>]
Loads(str) == str.text[2]

\* The "Fetch Overture Buildings" button with a geometry selected: the cache
\* key is computed and shown, and the fetch is called with the session's
\* feature_limit and the update_progress callback.
RequestFetch ==
    /\ pc = "idle"
    /\ fetches < MaxFetches
    /\ fetches' = fetches + 1
    /\ limit' = session.feature_limit
    /\ pc' = "start"
    /\ pos' = 0
    /\ batches' = <<>>
    /\ total_count' = 0
    /\ batch_count' = 0
    /\ emptyPulled' = 0
    /\ stopReason' = "none"
    /\ geojson' = <<>>
    /\ progressLog' = <<>>
    /\ outcome' = NoOutcome
    /\ upstreamFault' = FALSE
    /\ cbRaised' = FALSE
    /\ opened' = FALSE
    /\ UNCHANGED <<stream, hasCallback, readerOpens, session, ex, aoi, callVars>>

\* The fetch returned: the result is stored in the session, then st.rerun().
StoreResult ==
    /\ pc = "done"
    /\ outcome.kind = "returned"
    /\ session' = [session EXCEPT
                      !.building_count = outcome.building_count,
                      !.filtered_building_data = [is |-> "dict", features |-> outcome.geojson],
                      !.filtered_building_geojson = Dumps(outcome.geojson),
                      !.info_box_visible = TRUE,
                      !.data_truncated = outcome.truncated,
                      !.feature_limit = outcome.limit,
                      !.current_page = 0]
    /\ pc' = "idle"
    /\ UNCHANGED <<stream, limit, hasCallback, fetchVars, readerOpens, fetches, ex,
                   aoi, callVars>>

\* The fetch returned, building_count and filtered_building_data are assigned,
\* and json.dumps raises: _convert_to_python_type turns an array of `names`
\* or `sources` entries into a list without converting what the entries hold,
\* so a feature can carry a numpy array, which json.dumps rejects with a
\* TypeError.  The records of the model do not carry their property values:
\* for a collection that holds a feature both outcomes of json.dumps are
\* possible.  The except clause clears the placeholders and returns.
StoreRaises ==
    /\ pc = "done"
    /\ outcome.kind = "returned"
    /\ outcome.building_count > 0
    /\ session' = [session EXCEPT
                      !.building_count = outcome.building_count,
                      !.filtered_building_data = [is |-> "dict", features |-> outcome.geojson]]
    /\ pc' = "idle"
    /\ UNCHANGED <<stream, limit, hasCallback, fetchVars, readerOpens, fetches, ex,
                   aoi, callVars>>

\* The fetch raised: the placeholders are cleared, the error is shown, return.
ReportFailure ==
    /\ pc = "done"
    /\ outcome.kind = "raised"
    /\ pc' = "idle"
    /\ UNCHANGED <<stream, limit, hasCallback, fetchVars, readerOpens, fetches,
                   session, ex, aoi, callVars>>

\* The application: main() after initialize_session_state, a geometry
\* selected, nothing fetched yet.
InitApp ==
    /\ stream \in StreamsUpTo(MaxAppRecords)
    /\ session = SessionInit
    /\ limit = session.feature_limit
    /\ hasCallback = TRUE
    /\ pc = "idle"
    /\ FetchLocalsInit
    /\ readerOpens = 0
    /\ fetches = 0
    /\ ex = ExIdle
    /\ aoi = "polygon"
    /\ CallsIdle

NextApp ==
    \/ RequestFetch
    \/ FetchStep
    \/ StoreResult
    \/ StoreRaises
    \/ ReportFailure

SpecApp == InitApp /\ [][NextApp]_vars

\* ------------------------------------------------------- the sidebar and map
UiUnchanged ==
    UNCHANGED <<stream, limit, hasCallback, pc, fetchVars, readerOpens, fetches, ex, aoi,
                callVars>>

\* process_uploaded_file: the multiselect returns another selection.  The
\* stored result is reset (current_page is not), and display_selected_features
\* stores the geometry of a non-empty selection.
ChangeSelection ==
    /\ pc = "idle"
    /\ \E names \in SUBSET FeatureNames :
         /\ names # session.selected_feature_names
         /\ session' = [session EXCEPT
                           !.filtered_building_data = None,
                           !.filtered_building_geojson = None,
                           !.building_count = 0,
                           !.info_box_visible = FALSE,
                           !.data_truncated = FALSE,
                           !.feature_limit = DEFAULT_FEATURE_LIMIT,
                           !.selected_feature_names = names,
                           !.input_geometry =
                               IF names = {} THEN session.input_geometry
                               ELSE [is |-> "geometry", of |-> names]]
    /\ UiUnchanged

\* The "Fetch Overture Buildings" button: without a stored geometry only a
\* warning is shown.
ClickFetch ==
    /\ session.input_geometry # None
    /\ RequestFetch

\* display_fixed_info_box shows the display options.
OptionsShown == pc = "idle" /\ session.info_box_visible /\ session.building_count > 0

\* total_pages = (building_count - 1) // features_per_page + 1
TotalPages == (session.building_count - 1) \div session.features_per_page + 1

NavigationShown == OptionsShown /\ session.pagination_enabled /\ TotalPages > 1

\* The "Enable pagination" checkbox is toggled.
TogglePagination ==
    /\ OptionsShown
    /\ session' = [session EXCEPT !.pagination_enabled = ~session.pagination_enabled,
                                  !.current_page = 0]
    /\ UiUnchanged

\* A plausible slip: the slider handler keeps the current page.
ChangeFeaturesPerPageKeepsPage ==
    /\ OptionsShown
    /\ session.pagination_enabled
    /\ \E f \in FeaturesPerPageOptions :
         /\ f # session.features_per_page
         /\ session' = [session EXCEPT !.features_per_page = f]
    /\ UiUnchanged

\* The "Buildings per page" slider is moved.
ChangeFeaturesPerPage ==
    /\ OptionsShown
    /\ session.pagination_enabled
    /\ \E f \in FeaturesPerPageOptions :
         /\ f # session.features_per_page
         /\ session' = [session EXCEPT !.features_per_page = f, !.current_page = 0]
    /\ UiUnchanged

\* "Prev", disabled on the first page.
ClickPrev ==
    /\ NavigationShown
    /\ session.current_page # 0
    /\ session' = [session EXCEPT !.current_page = session.current_page - 1]
    /\ UiUnchanged

\* "Go to page": a number between 1 and total_pages.
GoToPage ==
    /\ NavigationShown
    /\ \E page_num \in 1..TotalPages :
         /\ page_num # session.current_page + 1
         /\ session' = [session EXCEPT !.current_page = page_num - 1]
    /\ UiUnchanged

\* "Next", disabled on the last page.
ClickNext ==
    /\ NavigationShown
    /\ ~(session.current_page >= TotalPages - 1)
    /\ session' = [session EXCEPT !.current_page = session.current_page + 1]
    /\ UiUnchanged

\* The application with a file uploaded and nothing selected yet.  Only the
\* number of retained buildings matters to the sidebar.
InitUI ==
    /\ stream \in {[i \in 1..n |-> "in"] : n \in 0..MaxAppRecords}
    /\ session = SessionInit
    /\ limit = session.feature_limit
    /\ hasCallback = TRUE
    /\ pc = "idle"
    /\ FetchLocalsInit
    /\ readerOpens = 0
    /\ fetches = 0
    /\ ex = ExIdle
    /\ aoi = "polygon"
    /\ CallsIdle

NextUI ==
    \/ ChangeSelection
    \/ ClickFetch
    \/ FetchStep
    \/ StoreResult
    \/ StoreRaises
    \/ ReportFailure
    \/ TogglePagination
    \/ ChangeFeaturesPerPage
    \/ ClickPrev
    \/ GoToPage
    \/ ClickNext

SpecUI == InitUI /\ [][NextUI]_vars

\* ---------------------------------------- extract_buildings_from_map_view
\* A GeoDataFrame of extracted buildings: its CRS ("none" when the file
\* declares none), the unit of its coordinates, and one row per building with
\* the building's true ground area in square meters.
Areas == {5, 50, 20000}
GdfKinds ==
    {[crs |-> "none", units |-> "degrees"], [crs |-> "none", units |-> "meters"],
     [crs |-> "EPSG:4326", units |-> "degrees"], [crs |-> "EPSG:3857", units |-> "meters"]}

RECURSIVE AreaSeqs(_)
AreaSeqs(n) ==
    IF n = 0 THEN {<<>>}
    ELSE LET shorter == AreaSeqs(n - 1)
         IN shorter \cup {Append(q, a) : q \in {t \in shorter : Len(t) = n - 1}, a \in Areas}

Gdfs ==
    {[crs |-> k.crs, units |-> k.units, rows |-> [i \in 1..Len(q) |-> [id |-> i, area |-> q[i]]]] :
        k \in GdfKinds, q \in AreaSeqs(MaxBuildings)}

\* geometry.area in the frame's own coordinates: square meters in a metric
\* frame; in degrees the area of a building is far below one unit.
NativeArea(gdf, b) == IF gdf.units = "meters" THEN b.area ELSE 0

\* filter_buildings_by_size: reproject a geographic frame to EPSG:3857,
\* measure, keep the rows in [min, max], convert back to EPSG:4326.  to_crs
\* raises on a frame without CRS; the handler then returns buildings_gdf, the
\* frame as it was before the filter.
FilterBuildingsBySize(gdf, min_area_sqm, max_area_sqm) ==
    LET projected == IF gdf.crs = "EPSG:4326"
                     THEN [gdf EXCEPT !.crs = "EPSG:3857", !.units = "meters"]
                     ELSE gdf
        InRange(b) == /\ NativeArea(projected, b) >= min_area_sqm
                      /\ NativeArea(projected, b) <= max_area_sqm
        filtered == [projected EXCEPT !.rows = SelectSeq(projected.rows, InRange)]
    IN IF filtered.crs = "EPSG:4326" THEN filtered
       ELSE IF filtered.crs = "none" THEN projected
       ELSE [filtered EXCEPT !.crs = "EPSG:4326", !.units = "degrees"]

\* buildings_to_geojson: the features of the GeoJSON text; an empty
\* FeatureCollection for an empty frame and when to_crs raises.
BuildingsToGeojson(gdf) ==
    IF gdf.rows = <<>> THEN <<>>
    ELSE IF gdf.crs = "none" THEN <<>>
    ELSE gdf.rows

\* return 0, 0.0, json.dumps({"type": "FeatureCollection", "features": []})
ExEmptyValue ==
    [kind |-> "returned", building_count |-> 0, avg_confidence |-> 0, features |-> <<>>]

ExUnchanged ==
    UNCHANGED <<stream, limit, hasCallback, pc, fetchVars, readerOpens, fetches, session,
                aoi, callVars>>

\* bbox and filter geometry from `bounds`; a malformed `bounds` raises and the
\* except clause returns the empty value.
ExBounds ==
    /\ ex.pc = "start"
    /\ \E ok \in BOOLEAN :
         ex' = IF ok THEN [ex EXCEPT !.pc = "download"]
               ELSE [ex EXCEPT !.pc = "done", !.failed = TRUE, !.outcome = ExEmptyValue]
    /\ ExUnchanged

\* download_satellite_imagery returns the image path, or None when the
\* download raised or left no file.
ExDownload ==
    /\ ex.pc = "download"
    /\ \E image_path \in {"path", "None"} :
         ex' = IF image_path = "path" THEN [ex EXCEPT !.pc = "segment"]
               ELSE [ex EXCEPT !.pc = "done", !.failed = TRUE, !.outcome = ExEmptyValue]
    /\ ExUnchanged

\* extract_buildings_sam2 returns the GeoPackage path, or None when the
\* segmentation raised or produced no output.
ExSegment ==
    /\ ex.pc = "segment"
    /\ \E buildings_path \in {"path", "None"} :
         ex' = IF buildings_path = "path" THEN [ex EXCEPT !.pc = "read"]
               ELSE [ex EXCEPT !.pc = "done", !.failed = TRUE, !.outcome = ExEmptyValue]
    /\ ExUnchanged

\* gpd.read_file(buildings_path); raising leads to the except clause.
ExRead ==
    /\ ex.pc = "read"
    /\ \/ \E g \in Gdfs : ex' = [ex EXCEPT !.pc = "filter", !.gdf = g]
       \/ ex' = [ex EXCEPT !.pc = "done", !.failed = TRUE, !.outcome = ExEmptyValue]
    /\ ExUnchanged

\* Filter by size, count, convert to GeoJSON, clean up, return.
ExFilterAndReturn ==
    /\ ex.pc = "filter"
    /\ LET filtered == FilterBuildingsBySize(ex.gdf, MinAreaSqm, MaxAreaSqm)
       IN ex' = [ex EXCEPT !.pc = "done",
                           !.building_count = Len(filtered.rows),
                           !.outcome = [kind |-> "returned",
                                        building_count |-> Len(filtered.rows),
                                        avg_confidence |-> DefaultConfidence,
                                        features |-> BuildingsToGeojson(filtered)]]
    /\ ExUnchanged

InitExtract ==
    /\ stream = <<>>
    /\ session = SessionInit
    /\ limit = session.feature_limit
    /\ hasCallback = FALSE
    /\ pc = "idle"
    /\ FetchLocalsInit
    /\ readerOpens = 0
    /\ fetches = 0
    /\ ex = [ExIdle EXCEPT !.pc = "start"]
    /\ aoi = "polygon"
    /\ CallsIdle

NextExtract ==
    \/ ExBounds
    \/ ExDownload
    \/ ExSegment
    \/ ExRead
    \/ ExFilterAndReturn

SpecExtract == InitExtract /\ [][NextExtract]_vars

\* ------------------------------------------------------ _extract_properties
\* A raw field value is modelled by its shape: the missing markers None and
\* NaN, native and numpy-wrapped numbers, a numeric string ("7"), another
\* string ("tall"), a non-empty dict, and an array or list of zero, one or
\* several (non-missing) elements.  "absent": the record lacks the field.
Shapes == {"absent", "None", "NaN", "int", "float", "npfloat", "numstr", "str", "dict",
           "list0", "list1", "listN"}

\* The fields of fields_to_extract that are modelled, with their declared
\* type, and a field outside the canonical schema.  (The str and bool
\* coercions of the other fields never raise.)
FieldType == [height |-> "float", num_floors |-> "int", sources |-> "nested"]
CanonicalFields == DOMAIN FieldType
PropFields == CanonicalFields \cup {"extra"}

\* _is_valid_value: False for None and NaN.  pd.isna of an array or list is
\* an array, whose truth value raises for several elements and, depending on
\* the numpy release, raises or is False for none.
IsValidValue(v, strictEmpty) ==
    CASE v \in {"None", "NaN"} -> "False"
      [] v = "listN" -> "raises"
      [] v = "list0" -> IF strictEmpty THEN "raises" ELSE "True"
      [] OTHER -> "True"

\* _convert_to_python_type: numpy scalars and arrays become native values.
ConvertToPythonType(v) == IF v = "npfloat" THEN "float" ELSE v

\* int(...) and float(...) succeed on numbers and numeric strings and raise
\* on every other shape; json.loads succeeds on a numeric string.
Coercible(v, type) ==
    CASE type \in {"int", "float"} -> v \in {"int", "float", "npfloat", "numstr"}
      [] type = "nested" -> v # "str"

\* A value is truthy unless it is an empty list (numbers and dicts of the
\* model are non-zero and non-empty).
Truthy(v) == v # "list0"

AbsentProp == [as |-> "absent"]
Prop(type, v) == [as |-> type, of |-> v]

\* First loop: the entry of properties for one canonical field.  Every
\* exception (of _is_valid_value, of the coercion, of json.loads) is swallowed.
CanonicalProp(record, f, strictEmpty) ==
    LET v == record[f]
    IN IF v = "absent" \/ IsValidValue(v, strictEmpty) # "True" THEN AbsentProp
       ELSE IF ~Coercible(v, FieldType[f]) THEN AbsentProp
       ELSE IF FieldType[f] = "nested"
            THEN IF Truthy(v) THEN Prop("nested", ConvertToPythonType(v)) ELSE AbsentProp
            ELSE Prop(FieldType[f], ConvertToPythonType(v))

\* Second loop: every key of the record that is not yet in properties is
\* tested with _is_valid_value, outside any try block, and forwarded as it is.
ForwardedProp(record, f, first, strictEmpty) ==
    IF first[f] # AbsentProp THEN first[f]
    ELSE IF record[f] = "absent" \/ IsValidValue(record[f], strictEmpty) = "False"
         THEN AbsentProp
         ELSE Prop("raw", ConvertToPythonType(record[f]))

SecondLoopRaises(record, first, strictEmpty) ==
    \E f \in PropFields :
        /\ first[f] = AbsentProp
        /\ record[f] # "absent"
        /\ IsValidValue(record[f], strictEmpty) = "raises"

ExtractProperties(record, strictEmpty) ==
    LET first == [f \in PropFields |->
                    IF f \in CanonicalFields THEN CanonicalProp(record, f, strictEmpty)
                    ELSE AbsentProp]
    IN IF SecondLoopRaises(record, first, strictEmpty) THEN [kind |-> "raises"]
       ELSE [kind |-> "properties",
             map |-> [f \in PropFields |-> ForwardedProp(record, f, first, strictEmpty)]]

CallUnchanged ==
    UNCHANGED <<stream, limit, hasCallback, pc, fetchVars, readerOpens, fetches, session,
                ex, aoi>>

CallExtractProperties ==
    /\ props.pc = "start"
    /\ props' = [props EXCEPT !.pc = "done",
                              !.result = ExtractProperties(props.record, props.strictEmpty)]
    /\ UNCHANGED <<conv, page, stats, dl>>
    /\ CallUnchanged

\* The initial values of the variables no pure-function call reads.
RestIdle ==
    /\ stream = <<>>
    /\ session = SessionInit
    /\ limit = session.feature_limit
    /\ hasCallback = FALSE
    /\ pc = "idle"
    /\ FetchLocalsInit
    /\ readerOpens = 0
    /\ fetches = 0
    /\ ex = ExIdle
    /\ aoi = "polygon"

InitProps ==
    /\ RestIdle
    /\ props \in {[pc |-> "start", record |-> r, strictEmpty |-> b, result |-> NoOutcome] :
                     r \in [PropFields -> Shapes], b \in BOOLEAN}
    /\ conv = NoCall
    /\ page = NoCall
    /\ stats = NoCall
    /\ dl = NoCall

NextProps == CallExtractProperties

SpecProps == InitProps /\ [][NextProps]_vars

\* ---------------------------------- _to_feature_collection on geometries
\* Footprints are axis-parallel rectangles.  The area of interest is the
\* unit square, drawn on a grid of thirds so that a footprint can lie
\* strictly inside it.
Rect(x1, y1, x2, y2) == [kind |-> "polygon", x1 |-> x1, y1 |-> y1, x2 |-> x2, y2 |-> y2]
Undecodable == [kind |-> "undecodable"]
UnitSquare == Rect(0, 0, 3, 3)

\* Footprints inside the area, outside it, straddling its boundary, touching
\* it along an edge and at a corner, and overlapping it in x only.
Footprints ==
    {Rect(1, 1, 2, 2), Rect(5, 5, 6, 6), Rect(2, 2, 4, 4), Rect(3, 1, 4, 2),
     Rect(3, 3, 4, 4), Rect(1, 5, 2, 6)}

\* A row of a batch: the geometry column (WKB that decodes to a footprint, or
\* bytes that do not decode) and the attribute columns, of which `sources`
\* holds an array of one or of several entries.
Rows == [geometry : Footprints \cup {Undecodable}, sources : {"list1", "listN"}]

RowRecord(row) ==
    [height |-> "float", num_floors |-> "int", sources |-> row.sources, extra |-> "absent"]

\* shapely's intersects: the closed rectangles share at least one point.
Intersects(g, a) ==
    /\ g.x1 <= a.x2
    /\ a.x1 <= g.x2
    /\ g.y1 <= a.y2
    /\ a.y1 <= g.y2

\* A plausible slip: the intersection test is left out.
KindOfNoFilter(row, area) ==
    IF row.geometry = Undecodable THEN "bad"
    ELSE IF ExtractProperties(RowRecord(row), FALSE).kind = "raises" THEN "bad"
    ELSE "in"

\* What the body of the row loop does with one row: `continue` on a geometry
\* that does not decode, filter a footprint that does not intersect the input
\* geometry, `continue` from the except clause when _extract_properties
\* raises, append a feature otherwise.
KindOf(row, area) ==
    IF row.geometry = Undecodable THEN "bad"
    ELSE IF ~Intersects(row.geometry, area) THEN "out"
    ELSE IF ExtractProperties(RowRecord(row), FALSE).kind = "raises" THEN "bad"
    ELSE "in"

\* The rows of one batch, numbered, with the kind the loop assigns to each.
Batch(rows, area) == [i \in 1..Len(rows) |-> [id |-> i, kind |-> KindOf(rows[i], area)]]

RECURSIVE SeqsUpTo(_, _)
SeqsUpTo(S, n) ==
    IF n = 0 THEN {<<>>}
    ELSE LET shorter == SeqsUpTo(S, n - 1)
         IN shorter \cup {Append(s, x) : s \in {t \in shorter : Len(t) = n - 1}, x \in S}

CallToFeatureCollection ==
    /\ conv.pc = "start"
    /\ conv' = [conv EXCEPT !.pc = "done",
                            !.features = ToFeatureCollection(
                                <<Batch(conv.rows, conv.input_geometry)>>, conv.limit)]
    /\ UNCHANGED <<props, page, stats, dl>>
    /\ CallUnchanged

InitFilter ==
    /\ RestIdle
    /\ props = NoCall
    /\ conv \in {[pc |-> "start", rows |-> rs, limit |-> l, input_geometry |-> UnitSquare,
                   features |-> <<>>] :
                     rs \in SeqsUpTo(Rows, MaxRows), l \in 1..MaxLimit}
    /\ page = NoCall
    /\ stats = NoCall
    /\ dl = NoCall

NextFilter == CallToFeatureCollection

SpecFilter == InitFilter /\ [][NextFilter]_vars

\* ------------------------------------------------- get_paginated_features
\* The features of a stored collection, identified by their 0-based index.
AllFeatures(n) == [i \in 1..n |-> i - 1]

\* Python's normalisation of a slice index against a list of length n: a
\* negative index counts from the end, and the result is clamped to 0..n.
SliceIndex(i, n) ==
    LET fromEnd == IF i < 0 THEN i + n ELSE i
    IN IF fromEnd < 0 THEN 0 ELSE IF fromEnd > n THEN n ELSE fromEnd

\* all_features[start:end]
Slice(s, start, end) ==
    LET lo == SliceIndex(start, Len(s))
        hi == SliceIndex(end, Len(s))
    IN IF lo < hi THEN SubSeq(s, lo + 1, hi) ELSE <<>>

GetPaginatedFeatures(all_features, page_number, features_per_page) ==
    LET start_idx == page_number * features_per_page
        end_idx == start_idx + features_per_page
    IN Slice(all_features, start_idx, end_idx)

CallGetPaginatedFeatures ==
    /\ page.pc = "start"
    /\ page' = [page EXCEPT !.pc = "done",
                            !.features = GetPaginatedFeatures(
                                AllFeatures(page.n), page.page, page.features_per_page)]
    /\ UNCHANGED <<props, conv, stats, dl>>
    /\ CallUnchanged

InitPage ==
    /\ RestIdle
    /\ props = NoCall
    /\ conv = NoCall
    /\ page \in {[pc |-> "start", n |-> n, page |-> p, features_per_page |-> f,
                   features |-> <<>>] :
                     n \in 0..MaxFeatures, p \in (-MaxPageIndex)..MaxPageIndex,
                     f \in 1..MaxPageSize}
    /\ stats = NoCall
    /\ dl = NoCall

NextPage == CallGetPaginatedFeatures

SpecPage == InitPage /\ [][NextPage]_vars

\* --------------------------------------------- compute_building_statistics
\* The properties of a feature, as far as the height and floor statistics
\* read them: a mapping that may or may not hold each key, with numeric values
\* (0 included).  The class and source tallies are computed from other keys.
StatKeys == {"height", "num_floors"}
StatProperties == UNION {[D -> 0..MaxValue] : D \in SUBSET StatKeys}

\* `if f['properties'].get(key)`: the key is present and its value is truthy.
Selected(properties, key) == key \in DOMAIN properties /\ properties[key] # 0

\* [f['properties'].get(key) for f in features if f['properties'].get(key)]
RECURSIVE ValuesOf(_, _)
ValuesOf(features, key) ==
    IF features = <<>> THEN <<>>
    ELSE LET rest == ValuesOf(Tail(features), key)
         IN IF Selected(Head(features), key) THEN <<Head(features)[key]>> \o rest ELSE rest

RECURSIVE Sum(_)
Sum(values) == IF values = <<>> THEN 0 ELSE Head(values) + Sum(Tail(values))

RECURSIVE Smallest(_)
Smallest(values) ==
    IF Len(values) = 1 THEN Head(values) ELSE Min(Head(values), Smallest(Tail(values)))

RECURSIVE Largest(_)
Largest(values) ==
    IF Len(values) = 1 THEN Head(values) ELSE Max(Head(values), Largest(Tail(values)))

\* The entry of one statistic; the average is kept as the quotient it is
\* computed from.
Summary(values) ==
    [count |-> Len(values),
     avg |-> [sum |-> Sum(values), len |-> Len(values)],
     min |-> Smallest(values),
     max |-> Largest(values)]

StatEntry == [heights |-> "height", floors |-> "num_floors"]

\* {} for no features; otherwise an entry for every statistic whose list of
\* values is not empty.
ComputeBuildingStatistics(features) ==
    IF features = <<>> THEN <<>>
    ELSE LET present == {e \in DOMAIN StatEntry : ValuesOf(features, StatEntry[e]) # <<>>}
         IN [e \in present |-> Summary(ValuesOf(features, StatEntry[e]))]

CallComputeBuildingStatistics ==
    /\ stats.pc = "start"
    /\ stats' = [stats EXCEPT !.pc = "done",
                              !.result = ComputeBuildingStatistics(stats.features)]
    /\ UNCHANGED <<props, conv, page, dl>>
    /\ CallUnchanged

InitStats ==
    /\ RestIdle
    /\ props = NoCall
    /\ conv = NoCall
    /\ page = NoCall
    /\ stats \in {[pc |-> "start", features |-> fs, result |-> <<>>] :
                    fs \in SeqsUpTo(StatProperties, MaxStatFeatures)}
    /\ dl = NoCall

NextStats == CallComputeBuildingStatistics

SpecStats == InitStats /\ [][NextStats]_vars

\* ------------------------------------------------ download_data_from_s2_code
\* The file <s2_code>_buildings.csv.gz of one S2 code: whether output_path
\* exists and how many chunks it holds.  `remote` is the number of chunks of
\* the object in the bucket (0: an empty object).
OutputPath == [is |-> "path"]

DlUnchanged ==
    /\ UNCHANGED <<props, conv, page, stats>>
    /\ CallUnchanged

\* Entry of a call: an existing output_path is returned as it is.
DlCall ==
    /\ dl.pc = "idle"
    /\ dl.calls < MaxCalls
    /\ dl' = IF dl.exists
             THEN [dl EXCEPT !.calls = dl.calls + 1, !.result = OutputPath]
             ELSE [dl EXCEPT !.calls = dl.calls + 1, !.result = NoOutcome,
                             !.pc = "request"]
    /\ DlUnchanged

\* requests.get and raise_for_status raise, or open(output_path, 'wb')
\* creates the file.
DlRequest ==
    /\ dl.pc = "request"
    /\ \E ok \in BOOLEAN :
         dl' = IF ok
               THEN [dl EXCEPT !.pc = "write", !.exists = TRUE, !.size = 0]
               ELSE [dl EXCEPT !.pc = "except"]
    /\ DlUnchanged

\* out.write(chunk)
DlWriteChunk ==
    /\ dl.pc = "write"
    /\ dl.size < dl.remote
    /\ dl' = [dl EXCEPT !.size = dl.size + 1]
    /\ DlUnchanged

\* iter_content raises while chunks are outstanding.
DlStreamFails ==
    /\ dl.pc = "write"
    /\ dl.size < dl.remote
    /\ dl' = [dl EXCEPT !.pc = "except"]
    /\ DlUnchanged

\* The stream ended: the file is closed and verified.  An empty file is
\* reported, None is returned, and the file stays where it is.
DlVerify ==
    /\ dl.pc = "write"
    /\ dl.size = dl.remote
    /\ dl' = [dl EXCEPT !.pc = "idle",
                        !.result = IF dl.exists /\ dl.size > 0 THEN OutputPath ELSE None]
    /\ DlUnchanged

\* except Exception: a partial file is removed, unless os.remove raises too;
\* None is returned.
DlExcept ==
    /\ dl.pc = "except"
    /\ \E removed \in BOOLEAN :
         dl' = IF dl.exists /\ removed
               THEN [dl EXCEPT !.pc = "idle", !.result = None, !.exists = FALSE,
                               !.size = 0]
               ELSE [dl EXCEPT !.pc = "idle", !.result = None,
                               !.cleanupFailed = dl.cleanupFailed \/ dl.exists]
    /\ DlUnchanged

InitDownload ==
    /\ RestIdle
    /\ props = NoCall
    /\ conv = NoCall
    /\ page = NoCall
    /\ stats = NoCall
    /\ dl \in {[pc |-> "idle", remote |-> n, exists |-> FALSE, size |-> 0, calls |-> 0,
                 result |-> NoOutcome, cleanupFailed |-> FALSE] : n \in 0..MaxChunks}

NextDownload ==
    \/ DlCall
    \/ DlRequest
    \/ DlWriteChunk
    \/ DlStreamFails
    \/ DlVerify
    \/ DlExcept

SpecDownload == InitDownload /\ [][NextDownload]_vars

\* ------------------------------------------------------------------- claims
ReturnedResult == pc = "done" /\ outcome.kind = "returned"
Matching == CountKind(stream, "in")
Pulled == SubSeq(stream, 1, pos)

\* C1: every returned result has building_count <= limit, and building_count
\* is the number of features of the returned FeatureCollection.
C1_CountWithinLimit ==
    ReturnedResult =>
        /\ outcome.building_count <= limit
        /\ outcome.building_count = Len(outcome.geojson)

\* C1 witness: a result cut at the limit: the batches pulled hold more
\* intersecting records than limit, and limit features are returned.
C1_Witness ==
    /\ ReturnedResult
    /\ outcome.building_count = limit
    /\ CountKind(Pulled, "in") > limit

\* C2 (as claimed): a returned result is truncated exactly when the upstream
\* source holds more records matching the area of interest than limit.
C2_TruncatedIffMoreMatching ==
    ReturnedResult => (outcome.truncated <=> Matching > limit)

\* C3 (as claimed): truncated implies the upstream record count exceeds
\* building_count, and not truncated implies the batch loop ended because the
\* source ran out, not because of the limit break.
C3_TruncatedSound ==
    ReturnedResult =>
        /\ outcome.truncated => Len(stream) > outcome.building_count
        /\ ~outcome.truncated => stopReason = "exhausted"

\* C4 (as claimed): with ScenarioMatching matching records upstream and
\* limit = ScenarioLimit (120,000 and 50,000, scaled), every returned result
\* has building_count = limit and is truncated, however the stream is cut
\* into batches and whatever non-matching records are interleaved.
C4_ScenarioTruncated ==
    (ReturnedResult /\ Matching = ScenarioMatching /\ limit = ScenarioLimit) =>
        /\ outcome.building_count = ScenarioLimit
        /\ outcome.truncated

\* C5 (as claimed): a fetch that stopped on the limit with exactly limit
\* records pulled is reported truncated.
C5_StopOnLimitIsTruncated ==
    (ReturnedResult /\ stopReason = "limit" /\ total_count = limit) => outcome.truncated

\* C7: after a failure of the upstream reader (open raises, reader is None, a
\* pull raises) the fetch ends by raising and returns no result.
C7_UpstreamFaultRaises ==
    (pc = "done" /\ upstreamFault) => outcome.kind = "raised"

\* C7 witness: a pull raised after batches holding matching records had been
\* pulled, and the fetch ended with the RuntimeError.
C7_Witness ==
    /\ pc = "done"
    /\ upstreamFault
    /\ CountKind(Pulled, "in") > 0
    /\ outcome = Raised("RuntimeError")

RECURSIVE NonDecreasing(_)
NonDecreasing(s) ==
    \/ Len(s) <= 1
    \/ (s[1] <= s[2] /\ NonDecreasing(Tail(s)))

\* C9 (as claimed): the progress values passed to progress_callback within
\* one fetch never decrease, on failing paths too (stated for a progress
\* callback that does not raise).
C9_ProgressMonotone == ~cbRaised => NonDecreasing(progressLog)

\* C10 (as claimed): when the upstream source delivers without error, the
\* fetch returns a result even if progress_callback raised.
C10_CallbackNeverFailsFetch ==
    (pc = "done" /\ ~upstreamFault) => outcome.kind = "returned"

\* C6 (as claimed): once a result for the bounding box and limit is stored, a
\* further fetch request with the same bounding box and limit does not invoke
\* record_batch_reader and ends with the identical GeoJSON (stated for a
\* progress callback that does not raise).
C6_SecondFetchServedFromCache ==
    (session.info_box_visible /\ pc # "idle" /\ ~cbRaised) =>
        /\ ~opened
        /\ pc = "done" =>
              /\ outcome.kind = "returned"
              /\ outcome.geojson = session.filtered_building_data.features
              /\ outcome.limit = session.feature_limit

\* C8 (as claimed): when the imagery download fails, the segmentation fails
\* or a step of extract_buildings_from_map_view raises, the caller is not
\* handed the value (0, 0.0, empty FeatureCollection) in place of the error.
C8_ExtractionFailureIsExplicit ==
    (ex.pc = "done" /\ ex.failed) => ex.outcome # ExEmptyValue

\* C11 (as claimed): at every point of a fetch at most one raw batch is held
\* in memory.
C11_AtMostOneRawBatchHeld == Len(batches) <= 1

\* C12 (as claimed): a returned result with building_count < limit is
\* produced only when the upstream source was exhausted: it has delivered
\* every record it holds.
C12_ShortResultOnlyWhenExhausted ==
    (ReturnedResult /\ outcome.building_count < limit) => pos = Len(stream)

\* The ids of the intersecting records of s, in order; s is a sequence of
\* kinds and its i-th record has id i.
RECURSIVE InIds(_, _)
InIds(s, n) ==
    IF n = 0 THEN <<>>
    ELSE IF s[n] = "in" THEN Append(InIds(s, n - 1), n) ELSE InIds(s, n - 1)

Take(q, n) == SubSeq(q, 1, Min(n, Len(q)))

\* C13: records that do not decode never fail the fetch, and the features
\* returned are exactly the intersecting records of the batches pulled, in
\* upstream order, up to the limit.
C13_BadRecordsSkipped ==
    /\ (pc = "done" /\ ~upstreamFault /\ ~cbRaised) => outcome.kind = "returned"
    /\ ReturnedResult => outcome.geojson = Take(InIds(stream, pos), limit)

\* C13 witness: a result that holds an intersecting record pulled after an
\* undecodable one of the same batch, and one of a later batch.
C13_Witness ==
    /\ ReturnedResult
    /\ Len(batches) >= 2
    /\ \E b \in 1..Len(batches) : \E i, j \in 1..Len(batches[b]) :
          /\ i < j
          /\ batches[b][i].kind = "bad"
          /\ batches[b][j].kind = "in"
          /\ \E f \in 1..Len(outcome.geojson) : outcome.geojson[f] = batches[b][j].id
          /\ \E c \in (b + 1)..Len(batches) : \E m \in 1..Len(batches[c]) :
                \E f \in 1..Len(outcome.geojson) : outcome.geojson[f] = batches[c][m].id

\* C14 (as claimed): _extract_properties never raises, whatever the shape of
\* each field value.
C14_ExtractPropertiesNeverRaises ==
    props.pc = "done" => props.result.kind # "raises"

\* C15 (as claimed): a canonical typed field whose raw value cannot be
\* coerced to the declared type is absent from the returned mapping.
C15_UncoercibleFieldAbsent ==
    (props.pc = "done" /\ props.result.kind = "properties") =>
        \A f \in {"height", "num_floors"} :
            (/\ props.record[f] \notin {"absent", "None", "NaN"}
             /\ ~Coercible(props.record[f], FieldType[f]))
            => props.result.map[f] = AbsentProp

Emitted == {conv.features[k] : k \in 1..Len(conv.features)}
ReachedBeforeLimit(i) == Cardinality({j \in Emitted : j < i}) < conv.limit

\* C16 (as claimed): a decodable record reached before the limit is retained
\* if and only if its geometry intersects the area of interest.
C16_RetainedIffIntersects ==
    conv.pc = "done" =>
        \A i \in 1..Len(conv.rows) :
            (conv.rows[i].geometry # Undecodable /\ ReachedBeforeLimit(i)) =>
                (i \in Emitted <=> Intersects(conv.rows[i].geometry, conv.input_geometry))

WithinBox(g, box) ==
    /\ box.x1 <= g.x1
    /\ g.x2 <= box.x2
    /\ box.y1 <= g.y1
    /\ g.y2 <= box.y2

\* C17 (as claimed): every emitted feature has all its coordinates inside the
\* closed bounding box of the area of interest.
C17_CoordinatesInsideBox ==
    conv.pc = "done" =>
        \A i \in Emitted : WithinBox(conv.rows[i].geometry, conv.input_geometry)

\* C17 (amended): every emitted feature carries the decoded footprint of its
\* record, and that footprint shares at least one point with the closed area
\* of interest; it is not clipped to the area.
C17_EmittedSharesPointWithArea ==
    conv.pc = "done" =>
        \A i \in Emitted :
            LET g == conv.rows[i].geometry
                a == conv.input_geometry
            IN /\ g # Undecodable
               /\ g.x1 <= a.x2 /\ a.x1 <= g.x2
               /\ g.y1 <= a.y2 /\ a.y1 <= g.y2

\* A straddling footprint and a strictly interior one are both emitted, next
\* to a filtered footprint.
C17_Witness ==
    /\ conv.pc = "done"
    /\ \E i \in Emitted : ~WithinBox(conv.rows[i].geometry, conv.input_geometry)
    /\ \E i \in Emitted : WithinBox(conv.rows[i].geometry, conv.input_geometry)
    /\ \E i \in 1..Len(conv.rows) :
          /\ conv.rows[i].geometry # Undecodable
          /\ i \notin Emitted
          /\ ReachedBeforeLimit(i)
          /\ conv.rows[i].sources = "list1"

\* C18 (as claimed): the page holds exactly the features at the indices
\* [page*size, min((page+1)*size, n)), in order, and is empty for every page
\* index that is out of range or negative.
C18_PageIsExactRange ==
    page.pc = "done" =>
        LET first == page.page * page.features_per_page
            last == Min((page.page + 1) * page.features_per_page, page.n)
        IN page.features =
             IF page.page < 0 \/ first >= page.n THEN <<>>
             ELSE [k \in 1..(last - first) |-> first + k - 1]

Carrying(key) ==
    Cardinality({i \in 1..Len(stats.features) : key \in DOMAIN stats.features[i]})

\* C19 (as claimed): heights.count (resp. floors.count) is the number of
\* features whose properties hold a height (resp. num_floors) value, a value
\* of 0 included.
C19_CountIsFeaturesCarryingValue ==
    stats.pc = "done" =>
        \A e \in DOMAIN StatEntry :
            Carrying(StatEntry[e]) > 0 =>
                /\ e \in DOMAIN stats.result
                /\ stats.result[e].count = Carrying(StatEntry[e])

\* C20 (as claimed): for an area of interest that is empty or not polygonal
\* the fetch never invokes record_batch_reader.
C20_UnusableAreaNeverOpensReader ==
    aoi # "polygon" => (~opened /\ readerOpens = 0)

\* display_selected_features calls get_paginated_features for the map.
DisplayedWithPagination ==
    /\ session.selected_feature_names # {}
    /\ session.filtered_building_data # None
    /\ session.pagination_enabled
    /\ session.filtered_building_geojson \notin {Absent, None}

CeilPages ==
    (session.building_count + session.features_per_page - 1) \div session.features_per_page

\* C21 (as claimed): whenever building data is displayed with pagination,
\* 0 <= current_page <= total_pages - 1 with
\* total_pages = ceil(building_count / features_per_page).
C21_CurrentPageWithinPages ==
    DisplayedWithPagination =>
        (0 <= session.current_page /\ session.current_page <= CeilPages - 1)

\* C21 (amended): whenever a stored result of at least one building is
\* displayed with pagination, current_page is within 0..total_pages - 1 and
\* the displayed page is not empty; a stored result of no building is
\* displayed with current_page = 0 (and total_pages = 0).
C21_PageWithinPagesWhenBuildings ==
    DisplayedWithPagination =>
        IF session.building_count > 0
        THEN /\ 0 <= session.current_page
             /\ session.current_page <= CeilPages - 1
             /\ GetPaginatedFeatures(Loads(session.filtered_building_geojson),
                                     session.current_page, session.features_per_page) # <<>>
        ELSE session.current_page = 0

\* The last of several pages is displayed after a second fetch.
C21_Witness ==
    /\ DisplayedWithPagination
    /\ pc = "idle"
    /\ fetches >= 2
    /\ session.current_page >= 1
    /\ session.current_page = CeilPages - 1

ResultCleared ==
    /\ session.filtered_building_data = None
    /\ session.building_count = 0
    /\ ~session.data_truncated
    /\ ~session.info_box_visible

ResultStored ==
    /\ session.filtered_building_data # None
    /\ Len(session.filtered_building_data.features) = session.building_count
    /\ session.filtered_building_geojson = Dumps(session.filtered_building_data.features)

\* C22 (as claimed): in every session state the stored result is either
\* cleared (no data, count 0, not truncated, info box hidden) or a
\* FeatureCollection of building_count features with its serialization.
C22_StoredResultConsistent ==
    IF session.filtered_building_data = None THEN ResultCleared ELSE ResultStored

StoredFields(s) ==
    <<s.building_count, s.filtered_building_data, s.filtered_building_geojson,
      s.data_truncated, s.feature_limit, s.info_box_visible, s.current_page>>

\* C23 (as claimed): every step of a fetch other than the storing of the
\* complete result of a successful one leaves building_count,
\* filtered_building_data, filtered_building_geojson, data_truncated,
\* feature_limit, info_box_visible and current_page as they were.
C23_FailedFetchLeavesResult ==
    [][(pc # "idle" /\ ~StoreResult) => StoredFields(session') = StoredFields(session)]_vars

\* C24 (as claimed): a returned path refers to a completely downloaded,
\* non-empty file (stated for calls whose clean-up of a partial file did not
\* itself fail).
C24_ReturnedPathIsCompleteFile ==
    (dl.pc = "idle" /\ dl.result = OutputPath /\ ~dl.cleanupFailed) =>
        (dl.exists /\ dl.size = dl.remote /\ dl.size > 0)

\* C25 (as claimed): for every outcome of extract_buildings_from_map_view the
\* returned building_count is the number of features of the returned
\* GeoJSON, and every returned feature has an area within
\* [min_area_sqm, max_area_sqm].
C25_CountMatchesReturnedFeatures ==
    ex.pc = "done" =>
        /\ ex.outcome.building_count = Len(ex.outcome.features)
        /\ \A i \in 1..Len(ex.outcome.features) :
              /\ ex.outcome.features[i].area >= MinAreaSqm
              /\ ex.outcome.features[i].area <= MaxAreaSqm

====
